---- MODULE Spec2Model ----
(***************************************************************************)
(* A model of the gotreap container (package gotreap: node.go, treap.go). *)
(*                                                                         *)
(* The Go heap is an arena `heap` of Node records addressed by small       *)
(* integers (NIL = 0 is the nil pointer).  `treap` holds the *Treap        *)
(* objects the caller keeps in its variables, `panicked` says whether the  *)
(* most recent call panicked; `ref` is the reference slice that the fuzz   *)
(* test keeps beside its container and `removed` the count its last        *)
(* erasure returned; `calls` is the number of calls a counting priority    *)
(* source has answered.                                                    *)
(***************************************************************************)
EXTENDS Integers, Sequences, FiniteSets, TLC

VARIABLES heap, treap, panicked, ref, removed, calls

vars == <<heap, treap, panicked, ref, removed, calls>>

\* The variables of the fuzz test and of the counting priority source,
\* which the other callers leave alone.
fuzzVars == <<ref, removed, calls>>

\* ---------------------------------------------------------------- bounds
\* The arena, the values and the priorities; the containers a caller keeps
\* and the values it hands a constructor; and, where several containers
\* share the arena (Spec), how many nodes and values they use.
MaxNodes == 4
MaxValue == 3
MaxPriority == 2
MaxTreaps == 3
MaxInit == 2
MaxShared == 3
MaxSharedValue == 2

NIL == 0
NodeIds == 1..MaxNodes
Values == 1..MaxValue
Priorities == 1..MaxPriority
TreapIds == 1..MaxTreaps

\* An unallocated cell of the arena.
Free == [value |-> 0, heightPriority |-> 0, left |-> NIL, right |-> NIL,
         parent |-> NIL, size |-> 0]

\* ------------------------------------------------------------- node.go
\* newNode: the fields of a freshly allocated node.
newNode(value, heightPriority) ==
  [value |-> value, heightPriority |-> heightPriority, left |-> NIL,
   right |-> NIL, parent |-> NIL, size |-> 1]

safeSize(h, t) == IF t = NIL THEN 0 ELSE h[t].size

recalcSizeStale(h, t) == h

recalcSize(h, t) ==
  [h EXCEPT ![t].size = safeSize(h, h[t].left) + 1 + safeSize(h, h[t].right)]

safeSetParent(h, t, parent) ==
  IF t = NIL THEN h ELSE [h EXCEPT ![t].parent = parent]

RECURSIVE merge(_, _, _)

\* merge with the priority comparison inverted.
mergeLowerWins(h, left, right) ==
  IF left = NIL THEN [h |-> h, n |-> right]
  ELSE IF right = NIL THEN [h |-> h, n |-> left]
  ELSE IF h[left].heightPriority < h[right].heightPriority THEN
    LET m  == merge(h, h[left].right, right)
        h1 == [m.h EXCEPT ![left].right = m.n]
        h2 == safeSetParent(h1, h1[left].right, left)
    IN  [h |-> recalcSize(h2, left), n |-> left]
  ELSE
    LET m  == merge(h, left, h[right].left)
        h1 == [m.h EXCEPT ![right].left = m.n]
        h2 == safeSetParent(h1, h1[right].left, right)
    IN  [h |-> recalcSize(h2, right), n |-> right]

\* merge with the two operands of the recursive calls swapped.
mergeSwapped(h, left, right) ==
  IF left = NIL THEN [h |-> h, n |-> right]
  ELSE IF right = NIL THEN [h |-> h, n |-> left]
  ELSE IF h[left].heightPriority >= h[right].heightPriority THEN
    LET m  == merge(h, right, h[left].right)
        h1 == [m.h EXCEPT ![left].right = m.n]
        h2 == safeSetParent(h1, h1[left].right, left)
    IN  [h |-> recalcSize(h2, left), n |-> left]
  ELSE
    LET m  == merge(h, h[right].left, left)
        h1 == [m.h EXCEPT ![right].left = m.n]
        h2 == safeSetParent(h1, h1[right].left, right)
    IN  [h |-> recalcSize(h2, right), n |-> right]

\* merge in which the left root wins whatever the priorities.
mergeLeftAlways(h, left, right) ==
  IF left = NIL THEN [h |-> h, n |-> right]
  ELSE IF right = NIL THEN [h |-> h, n |-> left]
  ELSE
    LET m  == merge(h, h[left].right, right)
        h1 == [m.h EXCEPT ![left].right = m.n]
        h2 == safeSetParent(h1, h1[left].right, left)
    IN  [h |-> recalcSize(h2, left), n |-> left]

\* merge in which equal priorities are won by the right root.
mergeTiesRight(h, left, right) ==
  IF left = NIL THEN [h |-> h, n |-> right]
  ELSE IF right = NIL THEN [h |-> h, n |-> left]
  ELSE IF h[left].heightPriority > h[right].heightPriority THEN
    LET m  == merge(h, h[left].right, right)
        h1 == [m.h EXCEPT ![left].right = m.n]
        h2 == safeSetParent(h1, h1[left].right, left)
    IN  [h |-> recalcSize(h2, left), n |-> left]
  ELSE
    LET m  == merge(h, left, h[right].left)
        h1 == [m.h EXCEPT ![right].left = m.n]
        h2 == safeSetParent(h1, h1[right].left, right)
    IN  [h |-> recalcSize(h2, right), n |-> right]

\* merge(left, right): the heap after the call and the node returned.
merge(h, left, right) ==
  IF left = NIL THEN [h |-> h, n |-> right]
  ELSE IF right = NIL THEN [h |-> h, n |-> left]
  ELSE IF h[left].heightPriority >= h[right].heightPriority THEN
    LET m  == merge(h, h[left].right, right)
        h1 == [m.h EXCEPT ![left].right = m.n]
        h2 == safeSetParent(h1, h1[left].right, left)
    IN  [h |-> recalcSize(h2, left), n |-> left]
  ELSE
    LET m  == merge(h, left, h[right].left)
        h1 == [m.h EXCEPT ![right].left = m.n]
        h2 == safeSetParent(h1, h1[right].left, right)
    IN  [h |-> recalcSize(h2, right), n |-> right]

\* The comparator a container was built with: "asc" is cmp.Less, "desc" the
\* reversed order of TestNewTreapCustomLess.
lessFn(f, a, b) == IF f = "desc" THEN a > b ELSE a < b

\* The three canonical predicates, as closures [kind, lessFn, x].
condLessAsLeq(f, value) == [kind |-> "leq", lessFn |-> f, x |-> value]

condLess(f, value) == [kind |-> "less", lessFn |-> f, x |-> value]

condLeqAsLess(f, value) == [kind |-> "less", lessFn |-> f, x |-> value]

condLeq(f, value) == [kind |-> "leq", lessFn |-> f, x |-> value]

condCutN(n) == [kind |-> "cutN", lessFn |-> "asc", x |-> n]

\* A predicate of the caller's own, as the tests hand to split: it holds
\* at the absolute indexes in S.  On one tree every predicate of value and
\* index is such a set, a node's index standing for the node.
condIndexIn(S) == [kind |-> "indexIn", lessFn |-> "asc", x |-> S]

\* Calling a leftCondition closure.
leftCond(c, nodeValue, nodeIndex) ==
  CASE c.kind = "less" -> lessFn(c.lessFn, nodeValue, c.x)
    [] c.kind = "leq"  -> ~lessFn(c.lessFn, c.x, nodeValue)
    [] c.kind = "cutN" -> nodeIndex < c.x
    [] c.kind = "indexIn" -> nodeIndex \in c.x

RECURSIVE split(_, _, _, _)

\* split that leaves t.right as it was when the node goes left.
splitKeepsRightLink(h, t, c, indexOffset) ==
  IF t = NIL THEN [h |-> h, left |-> NIL, right |-> NIL]
  ELSE
    LET centralIndexOffset == indexOffset + safeSize(h, h[t].left) IN
    IF leftCond(c, h[t].value, centralIndexOffset) THEN
      LET s  == split(h, h[t].right, c, centralIndexOffset + 1)
          h1 == s.h
          h2 == safeSetParent(h1, h1[t].right, t)
          h3 == safeSetParent(h2, s.right, NIL)
      IN  [h |-> recalcSize(h3, t), left |-> t, right |-> s.right]
    ELSE
      LET s  == split(h, h[t].left, c, indexOffset)
          h1 == [s.h EXCEPT ![t].left = s.right]
          h2 == safeSetParent(h1, s.left, NIL)
          h3 == safeSetParent(h2, h1[t].left, t)
      IN  [h |-> recalcSize(h3, t), left |-> s.left, right |-> t]

\* split that hands its own offset on to the right subtree.
splitSameOffset(h, t, c, indexOffset) ==
  IF t = NIL THEN [h |-> h, left |-> NIL, right |-> NIL]
  ELSE
    LET centralIndexOffset == indexOffset + safeSize(h, h[t].left) IN
    IF leftCond(c, h[t].value, centralIndexOffset) THEN
      LET s  == split(h, h[t].right, c, indexOffset)
          h1 == [s.h EXCEPT ![t].right = s.left]
          h2 == safeSetParent(h1, h1[t].right, t)
          h3 == safeSetParent(h2, s.right, NIL)
      IN  [h |-> recalcSize(h3, t), left |-> t, right |-> s.right]
    ELSE
      LET s  == split(h, h[t].left, c, indexOffset)
          h1 == [s.h EXCEPT ![t].left = s.right]
          h2 == safeSetParent(h1, s.left, NIL)
          h3 == safeSetParent(h2, h1[t].left, t)
      IN  [h |-> recalcSize(h3, t), left |-> s.left, right |-> t]

\* split(leftCond, indexOffset): the heap after the call and both results.
split(h, t, c, indexOffset) ==
  IF t = NIL THEN [h |-> h, left |-> NIL, right |-> NIL]
  ELSE
    LET centralIndexOffset == indexOffset + safeSize(h, h[t].left) IN
    IF leftCond(c, h[t].value, centralIndexOffset) THEN
      LET s  == split(h, h[t].right, c, centralIndexOffset + 1)
          h1 == [s.h EXCEPT ![t].right = s.left]
          h2 == safeSetParent(h1, h1[t].right, t)
          h3 == safeSetParent(h2, s.right, NIL)
      IN  [h |-> recalcSize(h3, t), left |-> t, right |-> s.right]
    ELSE
      LET s  == split(h, h[t].left, c, indexOffset)
          h1 == [s.h EXCEPT ![t].left = s.right]
          h2 == safeSetParent(h1, s.left, NIL)
          h3 == safeSetParent(h2, h1[t].left, t)
      IN  [h |-> recalcSize(h3, t), left |-> s.left, right |-> t]


RECURSIVE InOrder(_, _)

\* The in-order node sequence below t (mustInOrder of the tests, on nodes).
InOrder(h, t) ==
  IF t = NIL THEN <<>>
  ELSE InOrder(h, h[t].left) \o <<t>> \o InOrder(h, h[t].right)

ValuesOf(h, s) == [i \in 1..Len(s) |-> h[s[i]].value]

SeqRange(s) == {s[i] : i \in 1..Len(s)}

RECURSIVE lookupRightmostMatch(_, _, _, _)

lookupRightmostMatch(h, t, c, indexOffset) ==
  IF t = NIL THEN [node |-> NIL, index |-> 0]
  ELSE
    LET centralIndexOffset == indexOffset + safeSize(h, h[t].left) IN
    IF leftCond(c, h[t].value, centralIndexOffset) THEN
      LET res == lookupRightmostMatch(h, h[t].right, c, centralIndexOffset + 1) IN
      IF res.node # NIL THEN res
      ELSE [node |-> t, index |-> centralIndexOffset]
    ELSE lookupRightmostMatch(h, h[t].left, c, indexOffset)

RECURSIVE lookupLeftmostUnmatch(_, _, _, _)

lookupLeftmostUnmatch(h, t, c, indexOffset) ==
  IF t = NIL THEN [node |-> NIL, index |-> 0]
  ELSE
    LET centralIndexOffset == indexOffset + safeSize(h, h[t].left) IN
    IF leftCond(c, h[t].value, centralIndexOffset) THEN
      lookupLeftmostUnmatch(h, h[t].right, c, centralIndexOffset + 1)
    ELSE
      LET res == lookupLeftmostUnmatch(h, h[t].left, c, indexOffset) IN
      IF res.node # NIL THEN res
      ELSE [node |-> t, index |-> centralIndexOffset]

RECURSIVE IndexClimb(_, _, _)

\* The loop of Node.Index: climb from cur to the top, adding what lies left.
IndexClimb(h, cur, indexOffset) ==
  IF h[cur].parent = NIL THEN indexOffset
  ELSE IF h[h[cur].parent].right = cur THEN
    IndexClimb(h, h[cur].parent,
               indexOffset + safeSize(h, h[h[cur].parent].left) + 1)
  ELSE IndexClimb(h, h[cur].parent, indexOffset)

\* Node.Index
Index(h, t) ==
  IF t = NIL THEN 0 ELSE IndexClimb(h, t, safeSize(h, h[t].left))

RECURSIVE DescendRight(_, _)

\* for cur.right != nil { cur = cur.right }
DescendRight(h, cur) ==
  IF h[cur].right = NIL THEN cur ELSE DescendRight(h, h[cur].right)

RECURSIVE DescendLeft(_, _)

\* for cur.left != nil { cur = cur.left }
DescendLeft(h, cur) ==
  IF h[cur].left = NIL THEN cur ELSE DescendLeft(h, h[cur].left)

RECURSIVE ClimbToParent(_, _)

\* for cur.parent != nil { cur = cur.parent }
ClimbToParent(h, cur) ==
  IF h[cur].parent = NIL THEN cur ELSE ClimbToParent(h, h[cur].parent)

RECURSIVE ClimbFromRight(_, _)

\* The second loop of Node.Prev: the first parent reached from its right.
ClimbFromRight(h, cur) ==
  IF h[cur].parent = NIL THEN NIL
  ELSE IF h[h[cur].parent].right = cur THEN h[cur].parent
  ELSE ClimbFromRight(h, h[cur].parent)

RECURSIVE ClimbFromLeft(_, _)

\* The second loop of Node.Next: the first parent reached from its left.
ClimbFromLeft(h, cur) ==
  IF h[cur].parent = NIL THEN NIL
  ELSE IF h[h[cur].parent].left = cur THEN h[cur].parent
  ELSE ClimbFromLeft(h, h[cur].parent)

\* Node.Prev
Prev(h, t) ==
  IF t = NIL THEN NIL
  ELSE IF h[t].left # NIL THEN DescendRight(h, h[t].left)
  ELSE ClimbFromRight(h, t)

\* Node.Next
NodeNext(h, t) ==
  IF t = NIL THEN NIL
  ELSE IF h[t].right # NIL THEN DescendLeft(h, h[t].right)
  ELSE ClimbFromLeft(h, t)

\* Node.Leftmost
Leftmost(h, t) ==
  IF t = NIL THEN NIL ELSE DescendLeft(h, ClimbToParent(h, t))

\* Node.Rightmost
Rightmost(h, t) ==
  IF t = NIL THEN NIL ELSE DescendRight(h, ClimbToParent(h, t))

\* Node.Valid
Valid(t) == t # NIL

\* Node.Value: the zero value of int for a nil node.
Value(h, t) == IF t # NIL THEN h[t].value ELSE 0

\* ------------------------------------------------------------ treap.go
AtNoNegative(h, root, index) ==
  lookupLeftmostUnmatch(h, root, condCutN(index), 0).node

\* Treap.FindLowerBound
FindLowerBound(h, root, f, value) ==
  lookupLeftmostUnmatch(h, root, condLess(f, value), 0)

\* Treap.FindUpperBound
FindUpperBound(h, root, f, value) ==
  lookupRightmostMatch(h, root, condLeq(f, value), 0)

RECURSIVE Forward(_, _)

\* for ; cur.Valid(); cur = cur.Next() { yield(cur) }
Forward(h, cur) ==
  IF ~Valid(cur) THEN <<>> ELSE <<cur>> \o Forward(h, NodeNext(h, cur))

RECURSIVE Backward(_, _)

\* for ; cur.Valid(); cur = cur.Prev() { yield(cur) }
Backward(h, cur) ==
  IF ~Valid(cur) THEN <<>> ELSE <<cur>> \o Backward(h, Prev(h, cur))

\* Treap.Elements, run to its end: the nodes yielded.
Elements(h, root) == Forward(h, Leftmost(h, root))

\* Treap.ElementsBackwards, run to its end.
ElementsBackwards(h, root) == Backward(h, Rightmost(h, root))

\* Treap.At
At(h, root, index) ==
  LET sz == safeSize(h, root) IN
  IF sz = 0 \/ index < -sz \/ index >= sz THEN NIL
  ELSE LET i == IF index < 0 THEN sz + index ELSE index IN
       lookupLeftmostUnmatch(h, root, condCutN(i), 0).node

\* Treap.Size
Size(h, root) == safeSize(h, root)

\* The arena cell the next newNode gets.
Alloc(h) == CHOOSE i \in NodeIds : h[i] = Free /\ \A j \in 1..(i-1) : h[j] # Free

HasFree(h) == \E i \in NodeIds : h[i] = Free

FreeCount(h) == Cardinality({i \in NodeIds : h[i] = Free})

Allocated(h) == MaxNodes - FreeCount(h)

\* Treap.InsertLeft: heap and root after the call, the index returned, the node made.
InsertLeft(h, root, f, value, pri) ==
  LET s     == split(h, root, condLess(f, value), 0)
      index == safeSize(s.h, s.left)
      id    == Alloc(h)
      h1    == [s.h EXCEPT ![id] = newNode(value, pri)]
      m1    == merge(h1, id, s.right)
      m2    == merge(m1.h, s.left, m1.n)
  IN  [h |-> m2.h, root |-> m2.n, ret |-> index, node |-> id]

\* Treap.InsertRight
InsertRight(h, root, f, value, pri) ==
  LET s     == split(h, root, condLeq(f, value), 0)
      index == safeSize(s.h, s.left)
      id    == Alloc(h)
      h1    == [s.h EXCEPT ![id] = newNode(value, pri)]
      m1    == merge(h1, s.left, id)
      m2    == merge(m1.h, m1.n, s.right)
  IN  [h |-> m2.h, root |-> m2.n, ret |-> index, node |-> id]

\* Treap.EraseAll
EraseAll(h, root, f, value) ==
  LET s1 == split(h, root, condLess(f, value), 0)
      s2 == split(s1.h, s1.right, condLeq(f, value), 0)
      m  == merge(s2.h, s1.left, s2.right)
  IN  [h |-> m.h, root |-> m.n, ret |-> safeSize(s2.h, s2.left)]

\* Treap.EraseLeftmost
EraseLeftmost(h, root, f, value, n0) ==
  LET s1 == split(h, root, condLess(f, value), 0)
      s2 == split(s1.h, s1.right, condLeq(f, value), 0)
      n  == IF n0 < 0 THEN safeSize(s2.h, s2.left) ELSE n0
      s3 == split(s2.h, s2.left, condCutN(n), 0)
      m1 == merge(s3.h, s3.right, s2.right)
      m2 == merge(m1.h, s1.left, m1.n)
  IN  [h |-> m2.h, root |-> m2.n, ret |-> safeSize(s3.h, s3.left)]

\* EraseRightmost that takes its nodes from the left end of the run.
EraseRightmostFromLeft(h, root, f, value, n0) ==
  EraseLeftmost(h, root, f, value, n0)

\* Treap.EraseRightmost
EraseRightmost(h, root, f, value, n0) ==
  LET s1 == split(h, root, condLess(f, value), 0)
      s2 == split(s1.h, s1.right, condLeq(f, value), 0)
      n  == IF n0 < 0 THEN safeSize(s2.h, s2.left) ELSE n0
      remainderN == safeSize(s2.h, s2.left) - n
      s3 == split(s2.h, s2.left, condCutN(remainderN), 0)
      m1 == merge(s3.h, s3.left, s2.right)
      m2 == merge(m1.h, s1.left, m1.n)
  IN  [h |-> m2.h, root |-> m2.n, ret |-> safeSize(s3.h, s3.right)]

\* The range guards with only the first of the two.
RangePanicsOrderOnly(f, startValue, inclusiveStart, endValue, inclusiveEnd) ==
  lessFn(f, endValue, startValue)

\* The two guards of EraseRange and CountRange: TRUE when the call panics.
RangePanics(f, startValue, inclusiveStart, endValue, inclusiveEnd) ==
  \/ lessFn(f, endValue, startValue)
  \/ ~lessFn(f, startValue, endValue) /\ (~inclusiveStart \/ ~inclusiveEnd)

\* EraseRange with the two end thresholds exchanged.
EraseRangeEndFlipped(h, root, f, startValue, inclusiveStart, endValue, inclusiveEnd) ==
  LET s1 == IF inclusiveStart THEN split(h, root, condLess(f, startValue), 0)
            ELSE split(h, root, condLeq(f, startValue), 0)
      s2 == IF inclusiveEnd THEN split(s1.h, s1.right, condLess(f, endValue), 0)
            ELSE split(s1.h, s1.right, condLeq(f, endValue), 0)
      m  == merge(s2.h, s1.left, s2.right)
  IN  [h |-> m.h, root |-> m.n, ret |-> safeSize(s2.h, s2.left)]

\* EraseRange with the two start thresholds exchanged.
EraseRangeStartFlipped(h, root, f, startValue, inclusiveStart, endValue, inclusiveEnd) ==
  LET s1 == IF inclusiveStart THEN split(h, root, condLeq(f, startValue), 0)
            ELSE split(h, root, condLess(f, startValue), 0)
      s2 == IF inclusiveEnd THEN split(s1.h, s1.right, condLeq(f, endValue), 0)
            ELSE split(s1.h, s1.right, condLess(f, endValue), 0)
      m  == merge(s2.h, s1.left, s2.right)
  IN  [h |-> m.h, root |-> m.n, ret |-> safeSize(s2.h, s2.left)]

\* Treap.EraseRange, past its guards.
EraseRange(h, root, f, startValue, inclusiveStart, endValue, inclusiveEnd) ==
  LET s1 == IF inclusiveStart THEN split(h, root, condLess(f, startValue), 0)
            ELSE split(h, root, condLeq(f, startValue), 0)
      s2 == IF inclusiveEnd THEN split(s1.h, s1.right, condLeq(f, endValue), 0)
            ELSE split(s1.h, s1.right, condLess(f, endValue), 0)
      m  == merge(s2.h, s1.left, s2.right)
  IN  [h |-> m.h, root |-> m.n, ret |-> safeSize(s2.h, s2.left)]

\* EraseAt whose second cut is taken at index + count.
EraseAtAbsoluteEnd(h, root, index0, count) ==
  LET sz    == safeSize(h, root)
      index == IF index0 < 0 THEN sz + index0 ELSE index0
  IN  IF sz = 0 THEN [h |-> h, root |-> root, ret |-> 0]
      ELSE IF index < 0 \/ index >= sz THEN [h |-> h, root |-> root, ret |-> 0]
      ELSE
        LET s1 == split(h, root, condCutN(index), 0)
            s2 == split(s1.h, s1.right, condCutN(index + count), 0)
            m  == merge(s2.h, s1.left, s2.right)
        IN  [h |-> m.h, root |-> m.n, ret |-> safeSize(s2.h, s2.left)]

\* EraseAt without the counting of a negative index from the end.
EraseAtNoNegative(h, root, index0, count) ==
  LET sz    == safeSize(h, root)
      index == index0
  IN  IF sz = 0 THEN [h |-> h, root |-> root, ret |-> 0]
      ELSE IF index < 0 \/ index >= sz THEN [h |-> h, root |-> root, ret |-> 0]
      ELSE
        LET s1 == split(h, root, condCutN(index), 0)
            s2 == split(s1.h, s1.right, condCutN(count), 0)
            m  == merge(s2.h, s1.left, s2.right)
        IN  [h |-> m.h, root |-> m.n, ret |-> safeSize(s2.h, s2.left)]

\* Treap.EraseAt, past its count guard.
EraseAt(h, root, index0, count) ==
  LET sz    == safeSize(h, root)
      index == IF index0 < 0 THEN sz + index0 ELSE index0
  IN  IF sz = 0 THEN [h |-> h, root |-> root, ret |-> 0]
      ELSE IF index < 0 \/ index >= sz THEN [h |-> h, root |-> root, ret |-> 0]
      ELSE
        LET s1 == split(h, root, condCutN(index), 0)
            s2 == split(s1.h, s1.right, condCutN(count), 0)
            m  == merge(s2.h, s1.left, s2.right)
        IN  [h |-> m.h, root |-> m.n, ret |-> safeSize(s2.h, s2.left)]

\* PopLeftmost that cuts after the second element.
PopLeftmostCutsTwo(h, root) ==
  IF root = NIL THEN [h |-> h, root |-> root, ret |-> 0, ok |-> FALSE]
  ELSE
    LET s == split(h, root, condCutN(2), 0)
    IN  [h |-> s.h, root |-> s.right, ret |-> s.h[s.left].value, ok |-> TRUE]

\* Treap.PopLeftmost: ret is the value popped (the zero value when the
\* container is empty), ok whether there was one.
PopLeftmost(h, root) ==
  IF root = NIL THEN [h |-> h, root |-> root, ret |-> 0, ok |-> FALSE]
  ELSE
    LET s == split(h, root, condCutN(1), 0)
    IN  [h |-> s.h, root |-> s.right, ret |-> s.h[s.left].value, ok |-> TRUE]

\* Treap.PopRightmost
PopRightmost(h, root) ==
  IF root = NIL THEN [h |-> h, root |-> root, ret |-> 0, ok |-> FALSE]
  ELSE
    LET cutN == safeSize(h, root) - 1
        s    == split(h, root, condCutN(cutN), 0)
    IN  [h |-> s.h, root |-> s.left, ret |-> s.h[s.right].value, ok |-> TRUE]

RECURSIVE PopUntilEmpty(_, _)

\* for !tr.Empty() { val, _ := tr.PopLeftmost(); popped = append(popped, val) }
PopUntilEmpty(h, root) ==
  IF safeSize(h, root) = 0 THEN <<>>
  ELSE LET p == PopLeftmost(h, root) IN <<p.ret>> \o PopUntilEmpty(p.h, p.root)

\* CountRange with the two start thresholds exchanged.
CountRangeStartFlipped(h, root, f, startValue, inclusiveStart, endValue, inclusiveEnd) ==
  LET start == IF inclusiveStart
               THEN lookupLeftmostUnmatch(h, root, condLeq(f, startValue), 0)
               ELSE lookupLeftmostUnmatch(h, root, condLess(f, startValue), 0)
      end   == IF inclusiveEnd
               THEN lookupRightmostMatch(h, root, condLeq(f, endValue), 0)
               ELSE lookupRightmostMatch(h, root, condLess(f, endValue), 0)
  IN  IF start.node = NIL THEN 0
      ELSE IF end.node = NIL THEN 0
      ELSE IF end.index < start.index THEN 0
      ELSE end.index - start.index + 1

\* Treap.CountRange, past its guards: the count returned.
CountRange(h, root, f, startValue, inclusiveStart, endValue, inclusiveEnd) ==
  LET start == IF inclusiveStart
               THEN lookupLeftmostUnmatch(h, root, condLess(f, startValue), 0)
               ELSE lookupLeftmostUnmatch(h, root, condLeq(f, startValue), 0)
      end   == IF inclusiveEnd
               THEN lookupRightmostMatch(h, root, condLeq(f, endValue), 0)
               ELSE lookupRightmostMatch(h, root, condLess(f, endValue), 0)
  IN  IF start.node = NIL THEN 0
      ELSE IF end.node = NIL THEN 0
      ELSE IF end.index < start.index THEN 0
      ELSE end.index - start.index + 1

\* Treap.Count
Count(h, root, f, value) == CountRange(h, root, f, value, TRUE, value, TRUE)

\* Cut without the counting from the end.
CutPositionFromStartOnly(h, root, n) == n

\* Treap.Cut: the position the receiver is split at.
CutPosition(h, root, n) ==
  IF n < 0 THEN (IF safeSize(h, root) + n < 0 THEN 0 ELSE safeSize(h, root) + n)
  ELSE n

\* Treap.split without the clearing of the receiver.
TreapSplitKeepsReceiver(h, tr, t, c, l, r) ==
  LET s == split(h, tr[t].root, c, 0)
  IN  [h |-> s.h,
       treap |-> [tr EXCEPT ![l] = [root |-> s.left, lessFn |-> tr[t].lessFn,
                                    randFn |-> tr[t].randFn],
                            ![r] = [root |-> s.right, lessFn |-> tr[t].lessFn,
                                    randFn |-> tr[t].randFn]]]

\* Treap.split: the container-level split, which clears the receiver and
\* hands the two parts to new containers (kept in l and r).
TreapSplit(h, tr, t, c, l, r) ==
  LET s == split(h, tr[t].root, c, 0)
  IN  [h |-> s.h,
       treap |-> [tr EXCEPT ![t].root = NIL,
                            ![l] = [root |-> s.left, lessFn |-> tr[t].lessFn,
                                    randFn |-> tr[t].randFn],
                            ![r] = [root |-> s.right, lessFn |-> tr[t].lessFn,
                                    randFn |-> tr[t].randFn]]]

\* Merge(left, right): a new container (kept in dst) over merge of the roots.
\* The root fields of left and right are not assigned.  Every variable of
\* the callers holds a container, so the two nil-pointer returns are not
\* taken.
Merge(h, tr, left, right, dst) ==
  LET m == merge(h, tr[left].root, tr[right].root)
  IN  [h |-> m.h,
       treap |-> [tr EXCEPT ![dst] = [root |-> m.n, lessFn |-> tr[left].lessFn,
                                     randFn |-> tr[left].randFn]]]

RECURSIVE Insort(_, _, _)

\* One insertion of sort.Slice's ordering: x put before the first element it precedes.
Insort(f, s, x) ==
  IF s = <<>> THEN <<x>>
  ELSE IF lessFn(f, x, Head(s)) THEN <<x>> \o s
  ELSE <<Head(s)>> \o Insort(f, Tail(s), x)

RECURSIVE SortSlice(_, _)

\* sort.Slice(values, lessFn)
SortSlice(f, values) ==
  IF values = <<>> THEN <<>>
  ELSE Insort(f, SortSlice(f, Tail(values)), Head(values))

RECURSIVE FoldMerge(_, _, _, _)

\* The loop of NewTreapWithRand over the sorted values.
FoldMerge(h, root, values, pris) ==
  IF values = <<>> THEN [h |-> h, root |-> root]
  ELSE
    LET id == Alloc(h)
        h1 == [h EXCEPT ![id] = newNode(Head(values), Head(pris))]
        m  == merge(h1, root, id)
    IN  FoldMerge(m.h, m.n, Tail(values), Tail(pris))

\* NewTreapWithRand(lessFn, randFn, values...); pris is what randFn returns.
NewTreapWithRand(h, f, values, pris) ==
  FoldMerge(h, NIL, SortSlice(f, values), pris)

\* ------------------------------------------------- the Go runtime's part
RECURSIVE Top(_, _)

\* The node at the top of the tree that holds n.
Top(h, n) == IF h[n].parent = NIL THEN n ELSE Top(h, h[n].parent)

RECURSIVE LiveOrder(_, _, _, _)

\* The nodes of every tree some container still points into, tree by tree.
LiveOrder(h, tr, t, acc) ==
  IF t > MaxTreaps THEN acc
  ELSE LET r == tr[t].root IN
       IF r = NIL \/ r \in SeqRange(acc) THEN LiveOrder(h, tr, t + 1, acc)
       ELSE LiveOrder(h, tr, t + 1, acc \o InOrder(h, Top(h, r)))

\* Where a pointer points once the nodes stand in the order ord.
Moved(ord, n) == IF n = NIL THEN NIL ELSE CHOOSE k \in 1..Len(ord) : ord[k] = n

\* Garbage collection.  A node no container can reach is freed, and the
\* nodes that stay are laid out in LiveOrder: an address means nothing to
\* the program, which only ever compares two pointers for equality.
Collect(h, tr) ==
  LET ord == LiveOrder(h, tr, 1, <<>>) IN
  [h |-> [j \in NodeIds |->
            IF j <= Len(ord)
            THEN [h[ord[j]] EXCEPT !.left = Moved(ord, h[ord[j]].left),
                                   !.right = Moved(ord, h[ord[j]].right),
                                   !.parent = Moved(ord, h[ord[j]].parent)]
            ELSE Free],
   treap |-> [t \in TreapIds |-> [tr[t] EXCEPT !.root = Moved(ord, tr[t].root)]]]

\* --------------------------------------------------------- the callers
LessFns == {"asc"}

\* The priority sources: what they return is drawn by the caller of each
\* operator (pri, pris), so only their identity is kept.
RandFns == {"rand.Int"}

Root(t) == treap[t].root

\* A container the callers still mutate, split or merge: its root is the
\* top of its tree.  A source of Merge whose root went below another node
\* stays in `treap`, where it is read but no longer passed to such a call.
Usable(t) == IF Root(t) = NIL THEN TRUE ELSE heap[Root(t)].parent = NIL

\* The state after a call that left the heap h and the containers tr.
Becomes(h, tr) ==
  LET c == Collect(h, tr) IN heap' = c.h /\ treap' = c.treap

\* The common tail of a mutating call on container t that returns.
Returns(t, res) ==
  /\ panicked' = FALSE
  /\ Becomes(res.h, [treap EXCEPT ![t].root = res.root])

\* A panic raised after the roots were detached.
PanicsAfterDetach ==
  /\ panicked' = TRUE
  /\ heap' = heap
  /\ treap' = [t \in TreapIds |-> [treap[t] EXCEPT !.root = NIL]]

\* A call that panics leaves everything as it was.
Panics == panicked' = TRUE /\ UNCHANGED <<heap, treap>>

Init ==
  /\ heap = [i \in NodeIds |-> Free]
  /\ treap = [t \in TreapIds |-> [root |-> NIL, lessFn |-> "asc", randFn |-> "rand.Int"]]
  /\ panicked = FALSE
  /\ ref = <<>>
  /\ removed = 0
  /\ calls = 0

\* t = NewTreapWithRand(...), kept in a variable that held no elements.
DoNew(t, f, values, pris) ==
  /\ Root(t) = NIL
  /\ Len(values) <= FreeCount(heap)
  /\ LET res == NewTreapWithRand(heap, f, values, pris) IN
     \E g \in RandFns :
       Becomes(res.h, [treap EXCEPT ![t] = [root |-> res.root, lessFn |-> f, randFn |-> g]])
  /\ panicked' = FALSE
  /\ UNCHANGED fuzzVars

DoInsertLeft(t, value, pri) ==
  /\ Usable(t) /\ HasFree(heap)
  /\ Returns(t, InsertLeft(heap, Root(t), treap[t].lessFn, value, pri))
  /\ UNCHANGED fuzzVars

DoInsertRight(t, value, pri) ==
  /\ Usable(t) /\ HasFree(heap)
  /\ Returns(t, InsertRight(heap, Root(t), treap[t].lessFn, value, pri))
  /\ UNCHANGED fuzzVars

DoEraseAll(t, value) ==
  /\ Usable(t)
  /\ Returns(t, EraseAll(heap, Root(t), treap[t].lessFn, value))
  /\ UNCHANGED fuzzVars

DoEraseLeftmost(t, value, n) ==
  /\ Usable(t)
  /\ Returns(t, EraseLeftmost(heap, Root(t), treap[t].lessFn, value, n))
  /\ UNCHANGED fuzzVars

DoEraseRightmost(t, value, n) ==
  /\ Usable(t)
  /\ Returns(t, EraseRightmost(heap, Root(t), treap[t].lessFn, value, n))
  /\ UNCHANGED fuzzVars

DoEraseRange(t, startValue, inclusiveStart, endValue, inclusiveEnd) ==
  /\ Usable(t)
  /\ IF RangePanics(treap[t].lessFn, startValue, inclusiveStart, endValue, inclusiveEnd)
     THEN Panics
     ELSE Returns(t, EraseRange(heap, Root(t), treap[t].lessFn, startValue,
                                inclusiveStart, endValue, inclusiveEnd))
  /\ UNCHANGED fuzzVars

\* EraseAt with the empty-container return ahead of the count guard.
DoEraseAtEmptyFirst(t, index, count) ==
  /\ Usable(t)
  /\ IF Root(t) = NIL THEN panicked' = FALSE /\ UNCHANGED <<heap, treap>>
     ELSE IF count < 0 THEN Panics
     ELSE Returns(t, EraseAt(heap, Root(t), index, count))
  /\ UNCHANGED fuzzVars

DoEraseAt(t, index, count) ==
  /\ Usable(t)
  /\ IF count < 0 THEN Panics ELSE Returns(t, EraseAt(heap, Root(t), index, count))
  /\ UNCHANGED fuzzVars

DoPopLeftmost(t) ==
  /\ Usable(t)
  /\ IF Root(t) = NIL THEN panicked' = FALSE /\ UNCHANGED <<heap, treap>>
     ELSE Returns(t, PopLeftmost(heap, Root(t)))
  /\ UNCHANGED fuzzVars

DoPopRightmost(t) ==
  /\ Usable(t)
  /\ IF Root(t) = NIL THEN panicked' = FALSE /\ UNCHANGED <<heap, treap>>
     ELSE Returns(t, PopRightmost(heap, Root(t)))
  /\ UNCHANGED fuzzVars

\* Treap.CountRange: a query, which panics on the same bounds as EraseRange
\* and otherwise returns a count and assigns nothing.
DoCountRange(t, startValue, inclusiveStart, endValue, inclusiveEnd) ==
  /\ Usable(t)
  /\ IF RangePanics(treap[t].lessFn, startValue, inclusiveStart, endValue, inclusiveEnd)
     THEN Panics
     ELSE panicked' = FALSE /\ UNCHANGED <<heap, treap>>
  /\ UNCHANGED fuzzVars

\* Treap.Clear
DoClear(t) ==
  /\ Root(t) # NIL
  /\ Becomes(heap, [treap EXCEPT ![t].root = NIL])
  /\ panicked' = FALSE
  /\ UNCHANGED fuzzVars

\* The common tail of SplitBefore, SplitAfter and Cut, whose two results
\* the caller keeps in l and r.
Splits(t, c, l, r) ==
  /\ Usable(t)
  /\ l # r /\ l # t /\ r # t
  /\ LET res == TreapSplit(heap, treap, t, c, l, r) IN Becomes(res.h, res.treap)
  /\ panicked' = FALSE

DoSplitBefore(t, value, l, r) ==
  /\ Splits(t, condLess(treap[t].lessFn, value), l, r)
  /\ UNCHANGED fuzzVars

DoSplitAfter(t, value, l, r) ==
  /\ Splits(t, condLeq(treap[t].lessFn, value), l, r)
  /\ UNCHANGED fuzzVars

DoCut(t, n, l, r) ==
  /\ Splits(t, condCutN(CutPosition(heap, Root(t), n)), l, r)
  /\ UNCHANGED fuzzVars

\* Two containers Merge may be given: both still usable, sharing no node
\* and built with the same comparator.
Mergeable(left, right) ==
  /\ left # right
  /\ Usable(left) /\ Usable(right)
  /\ IF Root(left) = NIL THEN TRUE ELSE Root(left) # Root(right)
  /\ treap[left].lessFn = treap[right].lessFn

\* Merge(left, right), its result kept in a third variable.
DoMerge(left, right, dst) ==
  /\ dst # left /\ dst # right
  /\ Mergeable(left, right)
  /\ LET res == Merge(heap, treap, left, right, dst) IN Becomes(res.h, res.treap)
  /\ panicked' = FALSE
  /\ UNCHANGED fuzzVars

SeqsUpTo(S, n) == UNION {[1..k -> S] : k \in 0..n}

\* What the callers of Spec pass: values, counts and positions.
SharedValues == 1..MaxSharedValue
Counts == {-1, 1, 2}
Positions == {-1, 0, 1}

\* Room for k more nodes among the containers of Spec.
Room(k) == Allocated(heap) + k <= MaxShared

Next ==
  \/ \E t \in TreapIds, f \in LessFns, values \in SeqsUpTo(SharedValues, MaxInit) :
       \E pris \in [1..Len(values) -> Priorities] :
         Room(Len(values)) /\ DoNew(t, f, values, pris)
  \/ \E t \in TreapIds, value \in SharedValues, pri \in Priorities :
       Room(1) /\ DoInsertLeft(t, value, pri)
  \/ \E t \in TreapIds, value \in SharedValues, pri \in Priorities :
       Room(1) /\ DoInsertRight(t, value, pri)
  \/ \E t \in TreapIds, value \in SharedValues : DoEraseAll(t, value)
  \/ \E t \in TreapIds, value \in SharedValues, n \in Counts : DoEraseLeftmost(t, value, n)
  \/ \E t \in TreapIds, value \in SharedValues, n \in Counts : DoEraseRightmost(t, value, n)
  \/ \E t \in TreapIds, startValue \in SharedValues, endValue \in SharedValues,
        inclusiveStart \in BOOLEAN, inclusiveEnd \in BOOLEAN :
       DoEraseRange(t, startValue, inclusiveStart, endValue, inclusiveEnd)
  \/ \E t \in TreapIds, index \in Positions, count \in Counts : DoEraseAt(t, index, count)
  \/ \E t \in TreapIds : DoPopLeftmost(t)
  \/ \E t \in TreapIds : DoPopRightmost(t)
  \/ \E t \in TreapIds : DoClear(t)
  \/ \E t \in TreapIds, value \in SharedValues, l \in TreapIds, r \in TreapIds :
       l < r /\ DoSplitBefore(t, value, l, r)
  \/ \E t \in TreapIds, value \in SharedValues, l \in TreapIds, r \in TreapIds :
       l < r /\ DoSplitAfter(t, value, l, r)
  \/ \E t \in TreapIds, n \in Positions, l \in TreapIds, r \in TreapIds :
       l < r /\ DoCut(t, n, l, r)
  \/ \E left \in TreapIds, right \in TreapIds, dst \in TreapIds : DoMerge(left, right, dst)

Spec == Init /\ [][Next]_vars

\* ------------------------------------------ one container, every argument
\* A caller of a single container, the first, that passes any value (also
\* below and above the stored ones), any flags, any index and any count.
Probes == 0..(MaxValue + 1)

Indexes == (0 - MaxNodes - 1)..(MaxNodes + 1)

EraseCounts == -1..(MaxNodes + 1)

NextOne ==
  \/ \E value \in Values, pri \in Priorities : DoInsertLeft(1, value, pri)
  \/ \E value \in Values, pri \in Priorities : DoInsertRight(1, value, pri)
  \/ \E startValue \in Probes, endValue \in Probes,
        inclusiveStart \in BOOLEAN, inclusiveEnd \in BOOLEAN :
       DoEraseRange(1, startValue, inclusiveStart, endValue, inclusiveEnd)
  \/ \E startValue \in Probes, endValue \in Probes,
        inclusiveStart \in BOOLEAN, inclusiveEnd \in BOOLEAN :
       DoCountRange(1, startValue, inclusiveStart, endValue, inclusiveEnd)
  \/ \E index \in Indexes, count \in EraseCounts : DoEraseAt(1, index, count)

SpecOne == Init /\ [][NextOne]_vars

\* ------------------------------- one container and a counted priority source
\* A caller that builds the first container on a priority source of its own
\* which counts its calls, as NewTreapWithRand allows, and then inserts,
\* pops and queries.  The k-th call of the source (from 0) returns
\* staticRand(k): a stream fixed in advance, of which only the order of the
\* values matters to the container.
MaxCalls == 5

staticRand(k) == (k % MaxPriority) + 1

\* What a query leaves behind: nothing.
Reads ==
  /\ panicked' = FALSE
  /\ UNCHANGED <<heap, treap>>
  /\ UNCHANGED fuzzVars

RandNew(values) ==
  /\ Root(1) = NIL
  /\ Len(values) <= FreeCount(heap)
  /\ calls + Len(values) <= MaxCalls
  /\ LET pris == [i \in 1..Len(values) |-> staticRand(calls + i - 1)]
         res  == NewTreapWithRand(heap, "asc", values, pris)
     IN  Becomes(res.h, [treap EXCEPT ![1] = [root |-> res.root, lessFn |-> "asc",
                                              randFn |-> "staticRand"]])
  /\ panicked' = FALSE
  /\ calls' = calls + Len(values)
  /\ UNCHANGED <<ref, removed>>

\* InsertLeft with two draws from the priority source.
RandInsertLeftDrawsTwice(value) ==
  /\ Usable(1) /\ HasFree(heap)
  /\ calls + 1 < MaxCalls
  /\ Returns(1, InsertLeft(heap, Root(1), treap[1].lessFn, value, staticRand(calls + 1)))
  /\ calls' = calls + 2
  /\ UNCHANGED <<ref, removed>>

RandInsertLeft(value) ==
  /\ Usable(1) /\ HasFree(heap)
  /\ calls < MaxCalls
  /\ Returns(1, InsertLeft(heap, Root(1), treap[1].lessFn, value, staticRand(calls)))
  /\ calls' = calls + 1
  /\ UNCHANGED <<ref, removed>>

RandInsertRight(value) ==
  /\ Usable(1) /\ HasFree(heap)
  /\ calls < MaxCalls
  /\ Returns(1, InsertRight(heap, Root(1), treap[1].lessFn, value, staticRand(calls)))
  /\ calls' = calls + 1
  /\ UNCHANGED <<ref, removed>>

\* At(index)
QueryAt(index) ==
  /\ At(heap, Root(1), index) \in NodeIds \cup {NIL}
  /\ Reads

\* FindLowerBound(value), FindUpperBound(value) and Count(value)
QueryFind(value) ==
  /\ FindLowerBound(heap, Root(1), treap[1].lessFn, value).node \in NodeIds \cup {NIL}
  /\ FindUpperBound(heap, Root(1), treap[1].lessFn, value).node \in NodeIds \cup {NIL}
  /\ Count(heap, Root(1), treap[1].lessFn, value) \in 0..MaxNodes
  /\ Reads

\* Size(), Empty(), Root(), Leftmost(), Rightmost()
QueryEnds ==
  /\ Size(heap, Root(1)) \in 0..MaxNodes
  /\ (Size(heap, Root(1)) = 0) \in BOOLEAN
  /\ Root(1) \in NodeIds \cup {NIL}
  /\ Leftmost(heap, Root(1)) \in NodeIds \cup {NIL}
  /\ Rightmost(heap, Root(1)) \in NodeIds \cup {NIL}
  /\ Reads

\* Elements(), ElementsBackwards(), Values(), ValuesBackwards(), run to
\* their ends.
QueryIterate ==
  /\ Len(Elements(heap, Root(1))) \in 0..MaxNodes
  /\ Len(ElementsBackwards(heap, Root(1))) \in 0..MaxNodes
  /\ Len(ValuesOf(heap, Elements(heap, Root(1)))) \in 0..MaxNodes
  /\ Len(ValuesOf(heap, ElementsBackwards(heap, Root(1)))) \in 0..MaxNodes
  /\ Reads

\* The methods of node n: Index, Next, Prev, Leftmost, Rightmost, Value,
\* Valid; n may be nil.
QueryNode(n) ==
  /\ n = NIL \/ n \in SeqRange(InOrder(heap, Root(1)))
  /\ Index(heap, n) \in 0..MaxNodes
  /\ NodeNext(heap, n) \in NodeIds \cup {NIL}
  /\ Prev(heap, n) \in NodeIds \cup {NIL}
  /\ Leftmost(heap, n) \in NodeIds \cup {NIL}
  /\ Rightmost(heap, n) \in NodeIds \cup {NIL}
  /\ Value(heap, n) \in Values \cup {0}
  /\ Valid(n) \in BOOLEAN
  /\ Reads

InitRand ==
  /\ heap = [i \in NodeIds |-> Free]
  /\ treap = [t \in TreapIds |-> [root |-> NIL, lessFn |-> "asc", randFn |-> "staticRand"]]
  /\ panicked = FALSE
  /\ ref = <<>>
  /\ removed = 0
  /\ calls = 0

NextRand ==
  \/ \E values \in SeqsUpTo(Values, MaxInit) : RandNew(values)
  \/ \E value \in Values : RandInsertLeft(value)
  \/ \E value \in Values : RandInsertRight(value)
  \/ DoPopLeftmost(1)
  \/ DoPopRightmost(1)
  \/ \E index \in Indexes : QueryAt(index)
  \/ \E value \in Probes : QueryFind(value)
  \/ \E startValue \in Probes, endValue \in Probes,
        inclusiveStart \in BOOLEAN, inclusiveEnd \in BOOLEAN :
       DoCountRange(1, startValue, inclusiveStart, endValue, inclusiveEnd)
  \/ QueryEnds
  \/ QueryIterate
  \/ \E n \in NodeIds \cup {NIL} : QueryNode(n)

SpecRand == InitRand /\ [][NextRand]_vars

\* --------------------------------- the fuzz test and its reference slice
\* FuzzTreapInsertEraseConsistency drives one container, the first, beside
\* a slice of the values it should hold; each step ends by sorting the slice.

\* case 0: InsertLeft for an even byte, InsertRight for an odd one.
FuzzInsert(even, val, pri) ==
  /\ HasFree(heap)
  /\ Returns(1, IF even THEN InsertLeft(heap, Root(1), treap[1].lessFn, val, pri)
                ELSE InsertRight(heap, Root(1), treap[1].lessFn, val, pri))
  /\ ref' = SortSlice("asc", Append(ref, val))
  /\ UNCHANGED calls
  /\ removed' = 0

\* case 1: EraseAll of a value the reference holds.
FuzzEraseAll(b) ==
  /\ Len(ref) > 0
  /\ LET val == ref[(b % Len(ref)) + 1]
         res == EraseAll(heap, Root(1), treap[1].lessFn, val)
     IN
     /\ Returns(1, res)
     /\ removed' = res.ret
     /\ ref' = SortSlice("asc", SelectSeq(ref, LAMBDA v : v # val))
     /\ UNCHANGED calls

\* case 2: EraseRange between two values, put in order, both ends counted
\* when the two are equal.
FuzzEraseRange(lowRaw, highRaw, evenBit0, evenBit1) ==
  /\ Len(ref) >= 2
  /\ LET low  == IF lowRaw > highRaw THEN highRaw ELSE lowRaw
         high == IF lowRaw > highRaw THEN lowRaw ELSE highRaw
         forced == low = high /\ ~(evenBit0 /\ evenBit1)
         inclusiveLow  == IF forced THEN TRUE ELSE evenBit0
         inclusiveHigh == IF forced THEN TRUE ELSE evenBit1
         kept(v) == \/ v < low \/ (~inclusiveLow /\ v = low)
                    \/ v > high \/ (~inclusiveHigh /\ v = high)
         res == EraseRange(heap, Root(1), treap[1].lessFn, low, inclusiveLow,
                           high, inclusiveHigh)
     IN
     /\ IF RangePanics(treap[1].lessFn, low, inclusiveLow, high, inclusiveHigh)
        THEN Panics /\ removed' = 0
        ELSE Returns(1, res) /\ removed' = res.ret
     /\ ref' = SortSlice("asc", SelectSeq(ref, kept))
     /\ UNCHANGED calls

\* case 3: PopLeftmost for an even byte, PopRightmost for an odd one.
FuzzPop(even) ==
  /\ Len(ref) > 0
  /\ Root(1) # NIL
  /\ Returns(1, IF even THEN PopLeftmost(heap, Root(1)) ELSE PopRightmost(heap, Root(1)))
  /\ ref' = IF even THEN Tail(ref) ELSE SubSeq(ref, 1, Len(ref) - 1)
  /\ UNCHANGED calls
  /\ removed' = 0

NextFuzz ==
  \/ \E even \in BOOLEAN, val \in Values, pri \in Priorities : FuzzInsert(even, val, pri)
  \/ \E b \in 0..(MaxNodes - 1) : FuzzEraseAll(b)
  \/ \E lowRaw \in Values, highRaw \in Values, evenBit0 \in BOOLEAN, evenBit1 \in BOOLEAN :
       FuzzEraseRange(lowRaw, highRaw, evenBit0, evenBit1)
  \/ \E even \in BOOLEAN : FuzzPop(even)

SpecFuzz == Init /\ [][NextFuzz]_vars

\* ------------------------------------------------------------ the claims
\* The nodes reachable from a root, and the in-order nodes and values of a
\* container of the current state.
Nodes(h, root) == SeqRange(InOrder(h, root))

Seq0(t) == InOrder(heap, Root(t))

Vals0(t) == ValuesOf(heap, Seq0(t))

Sorted(s) == \A i \in 1..(Len(s) - 1) : s[i] <= s[i + 1]

\* C1: after every step of the fuzz test's sequence of InsertLeft,
\* InsertRight, EraseAll, EraseRange, PopLeftmost and PopRightmost on an
\* initially empty natural-order container, the in-order values of the
\* container are the reference slice sorted ascending (hence non-decreasing)
\* and Size() is the length of the reference.
C1_FuzzConsistency ==
  /\ Vals0(1) = ref
  /\ Sorted(Vals0(1))
  /\ Size(heap, Root(1)) = Len(ref)
  /\ ~panicked

\* An erasure has just taken two equal values out of the middle of a
\* container, whose two ends were merged back together.
C1_Witness ==
  /\ removed = 2
  /\ ref = <<1, MaxValue>>
  /\ Vals0(1) = ref
  /\ heap[Root(1)].heightPriority = 1

\* C2: after every public operation every node reachable from a container
\* root has a priority greater than or equal to that of each of its
\* children, whatever priorities were drawn, repeated ones included.
C2_HeapInvariant ==
  \A t \in TreapIds : \A n \in Nodes(heap, Root(t)) :
    /\ heap[n].left # NIL => heap[n].heightPriority >= heap[heap[n].left].heightPriority
    /\ heap[n].right # NIL => heap[n].heightPriority >= heap[heap[n].right].heightPriority

\* A root with two children, one of its own priority and one lower.
C2_Witness ==
  \E t \in TreapIds :
    /\ Root(t) # NIL
    /\ heap[Root(t)].left # NIL /\ heap[Root(t)].right # NIL
    /\ heap[heap[Root(t)].right].heightPriority = heap[Root(t)].heightPriority
    /\ heap[heap[Root(t)].left].heightPriority < heap[Root(t)].heightPriority

C4_ParentInvariant ==
  /\ \A t \in TreapIds : \A n \in Nodes(heap, Root(t)) :
       /\ heap[n].left # NIL => heap[heap[n].left].parent = n
       /\ heap[n].right # NIL => heap[heap[n].right].parent = n
  /\ \A t \in TreapIds : Root(t) # NIL => heap[Root(t)].parent = NIL
  /\ \A t \in TreapIds, v \in Values, n \in 0..MaxNodes :
       Usable(t) =>
         \A c \in {condLess(treap[t].lessFn, v), condLeq(treap[t].lessFn, v), condCutN(n)} :
           LET s == split(heap, Root(t), c, 0) IN
             /\ s.left # NIL => s.h[s.left].parent = NIL
             /\ s.right # NIL => s.h[s.right].parent = NIL

\* C5: InsertLeft(v) puts the new node right before the existing elements
\* equal to v and returns the number of existing elements less than v;
\* InsertRight(v) puts it right after them and returns the number of
\* existing elements less than or equal to v; the value returned is the
\* in-order index of the new node (At(returned) is the new node) and the
\* nodes that were there keep their relative order.
InsertedAt(before, k, n) ==
  SubSeq(before, 1, k) \o <<n>> \o SubSeq(before, k + 1, Len(before))

C5_InsertPlacement ==
  \A t \in TreapIds, v \in Values, p \in Priorities :
    (Usable(t) /\ HasFree(heap)) =>
      LET f      == treap[t].lessFn
          before == Seq0(t)
          vals   == Vals0(t)
          nLess  == Cardinality({i \in 1..Len(vals) : lessFn(f, vals[i], v)})
          nLeq   == Cardinality({i \in 1..Len(vals) : ~lessFn(f, v, vals[i])})
          L      == InsertLeft(heap, Root(t), f, v, p)
          R      == InsertRight(heap, Root(t), f, v, p)
      IN  /\ L.ret = nLess
          /\ InOrder(L.h, L.root) = InsertedAt(before, L.ret, L.node)
          /\ L.h[L.node].value = v
          /\ At(L.h, L.root, L.ret) = L.node
          /\ Index(L.h, L.node) = L.ret
          /\ \A i \in 1..Len(vals) : i <= L.ret <=> lessFn(f, vals[i], v)
          /\ ValuesOf(L.h, before) = vals
          /\ R.ret = nLeq
          /\ InOrder(R.h, R.root) = InsertedAt(before, R.ret, R.node)
          /\ R.h[R.node].value = v
          /\ At(R.h, R.root, R.ret) = R.node
          /\ Index(R.h, R.node) = R.ret
          /\ \A i \in 1..Len(vals) : i <= R.ret <=> ~lessFn(f, v, vals[i])
          /\ ValuesOf(R.h, before) = vals

\* A container <<1, 2, 2>> with room for one more: InsertLeft(2) lands at
\* index 1, before both equal elements, InsertRight(2) at index 3, after.
C5_Witness ==
  /\ Vals0(1) = <<1, 2, 2>>
  /\ HasFree(heap)
  /\ \E p \in Priorities :
       LET L == InsertLeft(heap, Root(1), treap[1].lessFn, 2, p)
           R == InsertRight(heap, Root(1), treap[1].lessFn, 2, p)
       IN  /\ L.ret = 1 /\ R.ret = 3
           /\ ValuesOf(L.h, InOrder(L.h, L.root)) = <<1, 2, 2, 2>>
           /\ InOrder(L.h, L.root)[2] = L.node
           /\ InOrder(R.h, R.root)[4] = R.node

\* C6: in any container reached by public operations At(n.Index()) is n for
\* every node n of the container, and At(i).Index() = i for every index i
\* with 0 <= i < Size().
C6_IndexRoundTrip ==
  \A t \in TreapIds :
    /\ \A n \in Nodes(heap, Root(t)) : At(heap, Root(t), Index(heap, n)) = n
    /\ \A i \in 0..(Size(heap, Root(t)) - 1) : Index(heap, At(heap, Root(t), i)) = i

\* C7: in a container of size s, At(i) is the node at in-order position i
\* for 0 <= i < s and at position s + i for -s <= i < 0 (At(-1) is the last
\* element); At(i) is absent for i >= s, for i < -s and on an empty container.
C7_AtNegativeIndex ==
  \A t \in TreapIds : \A i \in (0 - MaxNodes - 2)..(MaxNodes + 2) :
    LET s   == Size(heap, Root(t))
        ord == Seq0(t)
    IN  At(heap, Root(t), i) =
          IF 0 <= i /\ i < s THEN ord[i + 1]
          ELSE IF 0 - s <= i /\ i < 0 THEN ord[s + i + 1]
          ELSE NIL

\* A container of three nodes or more: At(-1) is its last node, At(-s) its
\* first, and one step further out there is nothing.
C7_Witness ==
  LET s == Size(heap, Root(1)) IN
    /\ s >= 3
    /\ At(heap, Root(1), -1) = Seq0(1)[s]
    /\ At(heap, Root(1), 0 - s) = Seq0(1)[1]
    /\ At(heap, Root(1), -2) = Seq0(1)[s - 1]
    /\ At(heap, Root(1), 0 - s - 1) = NIL
    /\ At(heap, Root(1), s) = NIL

\* C8: after Merge(a, b) returns both sources are empty (Size() = 0, no
\* root), so that no node is reachable from more than one container.
C8_MergeEmptiesSources ==
  [][\A left \in TreapIds, right \in TreapIds, dst \in TreapIds :
       DoMerge(left, right, dst) =>
         /\ treap'[left].root = NIL /\ Size(heap', treap'[left].root) = 0
         /\ treap'[right].root = NIL /\ Size(heap', treap'[right].root) = 0
         /\ \A t \in TreapIds, u \in TreapIds :
              t # u => Nodes(heap', treap'[t].root) \cap Nodes(heap', treap'[u].root) = {}]_vars

\* C9: for any two containers left and right, order-disjoint or not, the
\* in-order nodes of Merge(left, right), and of the node-level merge of
\* their roots, are those of left followed by those of right, none lost,
\* repeated or moved, and the size of the result is the sum of the sizes.
C9_MergeConcatenates ==
  \A left \in TreapIds, right \in TreapIds, dst \in TreapIds :
    (dst # left /\ dst # right /\ Mergeable(left, right)) =>
      LET m   == merge(heap, Root(left), Root(right))
          M   == Merge(heap, treap, left, right, dst)
          cat == Seq0(left) \o Seq0(right)
      IN  /\ InOrder(m.h, m.n) = cat
          /\ safeSize(m.h, m.n) = Size(heap, Root(left)) + Size(heap, Root(right))
          /\ InOrder(M.h, M.treap[dst].root) = cat
          /\ Size(M.h, M.treap[dst].root) = Len(cat)
          /\ Cardinality(SeqRange(cat)) = Len(cat)
          /\ ValuesOf(M.h, cat) = ValuesOf(heap, cat)

\* Two nodes on the left, one on the right whose value is below the last
\* of the left and whose priority makes it the root of the result.
C9_Witness ==
  \E left \in TreapIds, right \in TreapIds, dst \in TreapIds :
    /\ dst # left /\ dst # right /\ Mergeable(left, right)
    /\ Size(heap, Root(left)) = 2 /\ Size(heap, Root(right)) = 1
    /\ Vals0(left)[2] > Vals0(right)[1]
    /\ LET M == Merge(heap, treap, left, right, dst) IN
         /\ M.treap[dst].root = Root(right)
         /\ InOrder(M.h, M.treap[dst].root) = Seq0(left) \o Seq0(right)

\* C10: for containers a and b of one comparator and a boundary such that
\* every value of a is less than the boundary and no value of b is,
\* Merge(a, b).SplitBefore(boundary) returns a left part whose in-order
\* sequence is that of a before the merge and a right part whose sequence
\* is that of b.
Bounded(a, b, boundary) ==
  /\ \A i \in 1..Len(Vals0(a)) : lessFn(treap[a].lessFn, Vals0(a)[i], boundary)
  /\ \A i \in 1..Len(Vals0(b)) : ~lessFn(treap[b].lessFn, Vals0(b)[i], boundary)

MergeThenSplitBefore(a, b, dst, boundary) ==
  LET M == Merge(heap, treap, a, b, dst)
      S == TreapSplit(M.h, M.treap, dst, condLess(M.treap[dst].lessFn, boundary), a, b)
  IN  [h |-> S.h, left |-> S.treap[a].root, right |-> S.treap[b].root,
       rest |-> S.treap[dst].root]

C10_MergeSplitInverse ==
  \A a \in TreapIds, b \in TreapIds, dst \in TreapIds, boundary \in Values :
    (dst # a /\ dst # b /\ Mergeable(a, b) /\ Bounded(a, b, boundary)) =>
      LET r == MergeThenSplitBefore(a, b, dst, boundary) IN
        /\ InOrder(r.h, r.left) = Seq0(a)
        /\ InOrder(r.h, r.right) = Seq0(b)
        /\ ValuesOf(r.h, Seq0(a)) = Vals0(a)
        /\ ValuesOf(r.h, Seq0(b)) = Vals0(b)

\* One node below the boundary, two at it and above or both at it, the root
\* of the merged tree coming from b: the split has to cut a out again.
C10_Witness ==
  \E a \in TreapIds, b \in TreapIds, dst \in TreapIds, boundary \in SharedValues :
    /\ dst # a /\ dst # b /\ Mergeable(a, b) /\ Bounded(a, b, boundary)
    /\ Size(heap, Root(a)) = 1 /\ Size(heap, Root(b)) = 2
    /\ Vals0(b)[1] = boundary
    /\ heap[Root(a)].heightPriority < heap[Root(b)].heightPriority
    /\ LET r == MergeThenSplitBefore(a, b, dst, boundary) IN
         /\ InOrder(r.h, r.left) = Seq0(a)
         /\ InOrder(r.h, r.right) = Seq0(b)
         /\ r.rest = NIL

\* The two containers a split of t hands its parts to.
Others(t) == {p \in TreapIds \X TreapIds : p[1] # p[2] /\ p[1] # t /\ p[2] # t}

Min(a, b) == IF a < b THEN a ELSE b

Max(a, b) == IF a > b THEN a ELSE b

\* C11: SplitBefore(v) returns left with exactly the elements less than v
\* and right with exactly those not less than v; SplitAfter(v) returns left
\* with exactly the elements not greater than v and right with the greater
\* ones; left's sequence followed by right's is the receiver's sequence
\* before the call, the receiver is empty afterwards, and both results
\* carry the receiver's comparator and priority source.
C11_SplitPartitions ==
  \A t \in TreapIds, v \in Probes : \A p \in Others(t) :
    Usable(t) =>
      LET f == treap[t].lessFn
          B == TreapSplit(heap, treap, t, condLess(f, v), p[1], p[2])
          A == TreapSplit(heap, treap, t, condLeq(f, v), p[1], p[2])
          Less(n)       == lessFn(f, heap[n].value, v)
          NotLess(n)    == ~lessFn(f, heap[n].value, v)
          NotGreater(n) == ~lessFn(f, v, heap[n].value)
          Greater(n)    == lessFn(f, v, heap[n].value)
          Carried(S) ==
            /\ S.treap[t].root = NIL /\ Size(S.h, S.treap[t].root) = 0
            /\ InOrder(S.h, S.treap[p[1]].root) \o InOrder(S.h, S.treap[p[2]].root) = Seq0(t)
            /\ ValuesOf(S.h, Seq0(t)) = Vals0(t)
            /\ S.treap[p[1]].lessFn = f /\ S.treap[p[2]].lessFn = f
            /\ S.treap[p[1]].randFn = treap[t].randFn
            /\ S.treap[p[2]].randFn = treap[t].randFn
      IN  /\ InOrder(B.h, B.treap[p[1]].root) = SelectSeq(Seq0(t), Less)
          /\ InOrder(B.h, B.treap[p[2]].root) = SelectSeq(Seq0(t), NotLess)
          /\ Carried(B)
          /\ InOrder(A.h, A.treap[p[1]].root) = SelectSeq(Seq0(t), NotGreater)
          /\ InOrder(A.h, A.treap[p[2]].root) = SelectSeq(Seq0(t), Greater)
          /\ Carried(A)

\* The container <<1, 2, 2, 3>>: SplitBefore(2) cuts before both 2s,
\* SplitAfter(2) after them.
C11_Witness ==
  /\ Vals0(1) = <<1, 2, 2, 3>>
  /\ LET B == TreapSplit(heap, treap, 1, condLess(treap[1].lessFn, 2), 2, 3)
         A == TreapSplit(heap, treap, 1, condLeq(treap[1].lessFn, 2), 2, 3)
     IN  /\ ValuesOf(B.h, InOrder(B.h, B.treap[2].root)) = <<1>>
         /\ ValuesOf(B.h, InOrder(B.h, B.treap[3].root)) = <<2, 2, 3>>
         /\ ValuesOf(A.h, InOrder(A.h, A.treap[2].root)) = <<1, 2, 2>>
         /\ ValuesOf(A.h, InOrder(A.h, A.treap[3].root)) = <<3>>
         /\ B.treap[1].root = NIL /\ A.treap[1].root = NIL

\* C12: on a container of size s, Cut(n) with n >= 0 returns left with the
\* first min(n, s) elements and right with the rest; Cut(n) with n < 0
\* returns right with the last min(-n, s) elements and left with the others
\* (everything goes right when -n >= s); the receiver is empty afterwards.
C12_CutByPosition ==
  \A t \in TreapIds, n \in Indexes : \A p \in Others(t) :
    Usable(t) =>
      LET s == Size(heap, Root(t))
          k == IF n >= 0 THEN Min(n, s) ELSE s - Min(0 - n, s)
          C == TreapSplit(heap, treap, t, condCutN(CutPosition(heap, Root(t), n)), p[1], p[2])
      IN  /\ InOrder(C.h, C.treap[p[1]].root) = SubSeq(Seq0(t), 1, k)
          /\ InOrder(C.h, C.treap[p[2]].root) = SubSeq(Seq0(t), k + 1, s)
          /\ Size(C.h, C.treap[p[1]].root) = k
          /\ Size(C.h, C.treap[p[2]].root) = s - k
          /\ C.treap[t].root = NIL
          /\ ValuesOf(C.h, Seq0(t)) = Vals0(t)

\* A container of four: Cut(-1) leaves only the last element on the right,
\* Cut(3) does the same from the front, Cut(-5) sends everything right.
C12_Witness ==
  /\ Size(heap, Root(1)) = 4
  /\ LET Right(n) ==
           LET C == TreapSplit(heap, treap, 1, condCutN(CutPosition(heap, Root(1), n)), 2, 3)
           IN  InOrder(C.h, C.treap[3].root)
     IN  /\ Right(-1) = <<Seq0(1)[4]>>
         /\ Right(3) = <<Seq0(1)[4]>>
         /\ Right(-5) = Seq0(1)
         /\ Right(5) = <<>>

\* Whether x lies in the range from lo to hi with the given ends.
InRange(x, lo, inclusiveStart, hi, inclusiveEnd) ==
  /\ lo <= x /\ x <= hi
  /\ x = lo => inclusiveStart
  /\ x = hi => inclusiveEnd

\* C13: for every container and every lo, hi and flags that do not panic,
\* CountRange(lo, inclusiveStart, hi, inclusiveEnd) is the number of stored
\* elements x with lo <= x <= hi, not counting those equal to an exclusive
\* bound (0 when none qualifies, also on an empty container); Count(v) is
\* the number of elements equal to v.
C13_CountRangeExact ==
  \A t \in TreapIds :
    /\ \A lo \in Probes, hi \in Probes, is \in BOOLEAN, ie \in BOOLEAN :
         ~RangePanics(treap[t].lessFn, lo, is, hi, ie) =>
           CountRange(heap, Root(t), treap[t].lessFn, lo, is, hi, ie) =
             Cardinality({i \in 1..Len(Vals0(t)) : InRange(Vals0(t)[i], lo, is, hi, ie)})
    /\ \A v \in Probes :
         Count(heap, Root(t), treap[t].lessFn, v) =
           Cardinality({i \in 1..Len(Vals0(t)) : Vals0(t)[i] = v})

\* The container <<1, 2, 2, 3>>: four in [1, 3], two in (1, 3), none in
\* (2, 3), three in (1, 3], none above.
C13_Witness ==
  /\ Vals0(1) = <<1, 2, 2, 3>>
  /\ CountRange(heap, Root(1), treap[1].lessFn, 1, TRUE, 3, TRUE) = 4
  /\ CountRange(heap, Root(1), treap[1].lessFn, 1, FALSE, 3, FALSE) = 2
  /\ CountRange(heap, Root(1), treap[1].lessFn, 2, FALSE, 3, FALSE) = 0
  /\ CountRange(heap, Root(1), treap[1].lessFn, 1, FALSE, 3, TRUE) = 3
  /\ CountRange(heap, Root(1), treap[1].lessFn, 4, TRUE, 4, TRUE) = 0
  /\ Count(heap, Root(1), treap[1].lessFn, 2) = 2

\* C14: for valid bounds EraseRange(start, inclusiveStart, end,
\* inclusiveEnd) removes exactly the elements x with start <= x <= end, less
\* those equal to an exclusive bound, returns how many it removed, and
\* leaves the other elements in their previous relative order.
C14_EraseRangeExact ==
  \A t \in TreapIds, lo \in Probes, hi \in Probes, is \in BOOLEAN, ie \in BOOLEAN :
    (Usable(t) /\ ~RangePanics(treap[t].lessFn, lo, is, hi, ie)) =>
      LET E == EraseRange(heap, Root(t), treap[t].lessFn, lo, is, hi, ie)
          Outside(n) == ~InRange(heap[n].value, lo, is, hi, ie)
          kept == SelectSeq(Seq0(t), Outside)
      IN  /\ InOrder(E.h, E.root) = kept
          /\ E.ret = Len(Seq0(t)) - Len(kept)
          /\ Size(E.h, E.root) = Len(kept)
          /\ ValuesOf(E.h, kept) = ValuesOf(heap, kept)

\* The container <<1, 2, 2, 3>>: EraseRange(2, true, 3, false) takes the
\* two 2s out of the middle and EraseRange(1, false, 3, false) too.
C14_Witness ==
  /\ Vals0(1) = <<1, 2, 2, 3>>
  /\ LET E == EraseRange(heap, Root(1), treap[1].lessFn, 2, TRUE, 3, FALSE)
         G == EraseRange(heap, Root(1), treap[1].lessFn, 1, FALSE, 3, FALSE)
     IN  /\ E.ret = 2 /\ G.ret = 2
         /\ InOrder(E.h, E.root) = <<Seq0(1)[1], Seq0(1)[4]>>
         /\ InOrder(G.h, G.root) = <<Seq0(1)[1], Seq0(1)[4]>>

\* The bounds the range calls reject: end before start, or start and end
\* equivalent with an exclusive bound.
BadRange(lo, inclusiveStart, hi, inclusiveEnd) ==
  \/ hi < lo
  \/ hi = lo /\ ~(inclusiveStart /\ inclusiveEnd)

\* C15: EraseRange and CountRange panic exactly when the end bound precedes
\* the start bound, or when start and end are equivalent and at least one
\* bound is exclusive; for every other argument combination they return
\* normally.
C15_RangePanicsExactly ==
  [][\A lo \in Probes, hi \in Probes, is \in BOOLEAN, ie \in BOOLEAN :
       \/ panicked' = BadRange(lo, is, hi, ie)
       \/ /\ ~DoEraseRange(1, lo, is, hi, ie)
          /\ ~DoCountRange(1, lo, is, hi, ie)]_vars

\* A panic has just been raised on the container <<2>>, on which the bounds
\* [2, 2) and [3, 2] are rejected and [2, 2] is accepted.
C15_Witness ==
  /\ panicked
  /\ Vals0(1) = <<2>>
  /\ RangePanics(treap[1].lessFn, 2, TRUE, 2, FALSE)
  /\ RangePanics(treap[1].lessFn, 3, TRUE, 2, TRUE)
  /\ ~RangePanics(treap[1].lessFn, 2, TRUE, 2, TRUE)

\* C16: whenever EraseRange, CountRange or EraseAt panics, the container is
\* exactly as it was before the call: same nodes, same shape, same sizes,
\* same parent links, same root.
C16_PanicLeavesAll ==
  [][panicked' => (heap' = heap /\ treap' = treap)]_vars

\* A panic has just been raised on a full container whose root has two
\* children.
C16_Witness ==
  /\ panicked
  /\ Size(heap, Root(1)) = MaxNodes
  /\ heap[Root(1)].left # NIL
  /\ heap[Root(1)].right # NIL

\* C17: on a container of size s, EraseAt(index, count) with index >= 0 and
\* count >= 0 removes the elements at positions index .. index + k - 1,
\* where k = min(count, max(s - index, 0)), returns k, and leaves the other
\* elements in their previous relative order.
C17_EraseAtExact ==
  \A t \in TreapIds, index \in Indexes, count \in EraseCounts :
    (Usable(t) /\ index >= 0 /\ count >= 0) =>
      LET s == Size(heap, Root(t))
          k == Min(count, Max(s - index, 0))
          E == EraseAt(heap, Root(t), index, count)
          kept == SubSeq(Seq0(t), 1, Min(index, s)) \o SubSeq(Seq0(t), index + k + 1, s)
      IN  /\ E.ret = k
          /\ InOrder(E.h, E.root) = kept
          /\ Size(E.h, E.root) = s - k
          /\ ValuesOf(E.h, kept) = ValuesOf(heap, kept)

\* A container of four: EraseAt(1, 2) takes out the middle two, EraseAt(2,
\* 5) the last two, EraseAt(4, 1) and EraseAt(1, 0) nothing.
C17_Witness ==
  /\ Size(heap, Root(1)) = 4
  /\ LET E == EraseAt(heap, Root(1), 1, 2)
         G == EraseAt(heap, Root(1), 2, 5)
     IN  /\ E.ret = 2 /\ InOrder(E.h, E.root) = <<Seq0(1)[1], Seq0(1)[4]>>
         /\ G.ret = 2 /\ InOrder(G.h, G.root) = <<Seq0(1)[1], Seq0(1)[2]>>
         /\ EraseAt(heap, Root(1), 4, 1).ret = 0
         /\ EraseAt(heap, Root(1), 1, 0).ret = 0

\* C18: EraseAt with a negative count panics for every index and every
\* container state, including an empty container and an out-of-range index.
C18_NegativeCountPanics ==
  [][\A index \in Indexes, count \in EraseCounts :
       (count < 0 /\ DoEraseAt(1, index, count)) => panicked']_vars

\* A panic has just been raised on an empty container.
C18_Witness == panicked /\ Root(1) = NIL /\ Size(heap, Root(1)) = 0

\* C19: EraseAt with a negative index panics: EraseAt(-1, 1) on a non-empty
\* container panics rather than erasing the last element.
C19_NegativeIndexPanics ==
  [][(Root(1) # NIL /\ DoEraseAt(1, -1, 1)) => (panicked' /\ heap' = heap /\ treap' = treap)]_vars

C21_NilNodeHelpers ==
  /\ Index(heap, NIL) = -1
  /\ Prev(heap, NIL) = NIL
  /\ NodeNext(heap, NIL) = NIL
  /\ Leftmost(heap, NIL) = NIL
  /\ Rightmost(heap, NIL) = NIL
  /\ Value(heap, NIL) = 0
  /\ ~Valid(NIL)

\* s without the nodes of the set gone.
Without(s, gone) == SelectSeq(s, LAMBDA n : n \notin gone)

\* C22: on a container holding k elements equal to value, EraseAll(value)
\* removes all k and returns k; EraseLeftmost(value, n) removes the
\* min(n, k) leftmost nodes of that run and EraseRightmost(value, n) the
\* min(n, k) rightmost ones when n >= 0, and both remove all k when n < 0;
\* each returns the number removed, removes no element that is not equal to
\* value, and keeps the remaining elements in their previous relative order.
C22_EraseByValue ==
  \A t \in TreapIds, value \in Probes, n \in EraseCounts :
    Usable(t) =>
      LET f   == treap[t].lessFn
          run == SelectSeq(Seq0(t), LAMBDA x : heap[x].value = value)
          k   == Len(run)
          m   == IF n < 0 THEN k ELSE Min(n, k)
          A   == EraseAll(heap, Root(t), f, value)
          L   == EraseLeftmost(heap, Root(t), f, value, n)
          R   == EraseRightmost(heap, Root(t), f, value, n)
          restL == Without(Seq0(t), SeqRange(SubSeq(run, 1, m)))
          restR == Without(Seq0(t), SeqRange(SubSeq(run, k - m + 1, k)))
      IN  /\ A.ret = k
          /\ InOrder(A.h, A.root) = Without(Seq0(t), SeqRange(run))
          /\ L.ret = m
          /\ InOrder(L.h, L.root) = restL
          /\ ValuesOf(L.h, restL) = ValuesOf(heap, restL)
          /\ R.ret = m
          /\ InOrder(R.h, R.root) = restR
          /\ ValuesOf(R.h, restR) = ValuesOf(heap, restR)

\* The container <<2, 2, 2, 3>>: EraseLeftmost(2, 2) keeps the third 2,
\* EraseRightmost(2, 2) the first, EraseRightmost(2, -1) and EraseAll(2)
\* take all three, EraseLeftmost(2, 0) and EraseAll(1) none.
C22_Witness ==
  /\ Vals0(1) = <<2, 2, 2, 3>>
  /\ LET f == treap[1].lessFn
         L == EraseLeftmost(heap, Root(1), f, 2, 2)
         R == EraseRightmost(heap, Root(1), f, 2, 2)
         N == EraseRightmost(heap, Root(1), f, 2, -1)
         A == EraseAll(heap, Root(1), f, 2)
     IN  /\ L.ret = 2 /\ InOrder(L.h, L.root) = <<Seq0(1)[3], Seq0(1)[4]>>
         /\ R.ret = 2 /\ InOrder(R.h, R.root) = <<Seq0(1)[1], Seq0(1)[4]>>
         /\ N.ret = 3 /\ InOrder(N.h, N.root) = <<Seq0(1)[4]>>
         /\ A.ret = 3 /\ InOrder(A.h, A.root) = <<Seq0(1)[4]>>
         /\ EraseLeftmost(heap, Root(1), f, 2, 0).ret = 0
         /\ EraseAll(heap, Root(1), f, 1).ret = 0

\* C23: FindLowerBound(v) returns the leftmost node whose value is not less
\* than v and FindUpperBound(v) the rightmost node whose value is not
\* greater than v, each together with that node's in-order index (equal to
\* node.Index()); when no such node exists (including on an empty
\* container) the result is (absent, 0).
C23_BoundLookups ==
  \A t \in TreapIds, v \in Probes :
    Sorted(Vals0(t)) =>
      LET f  == treap[t].lessFn
          lb == FindLowerBound(heap, Root(t), f, v)
          ub == FindUpperBound(heap, Root(t), f, v)
          notLess    == {i \in 1..Len(Seq0(t)) : ~lessFn(f, Vals0(t)[i], v)}
          notGreater == {i \in 1..Len(Seq0(t)) : ~lessFn(f, v, Vals0(t)[i])}
      IN  /\ IF notLess = {} THEN lb = [node |-> NIL, index |-> 0]
             ELSE LET i == CHOOSE i \in notLess : \A j \in notLess : i <= j
                  IN  /\ lb.node = Seq0(t)[i]
                      /\ lb.index = i - 1
                      /\ lb.index = Index(heap, lb.node)
          /\ IF notGreater = {} THEN ub = [node |-> NIL, index |-> 0]
             ELSE LET i == CHOOSE i \in notGreater : \A j \in notGreater : i >= j
                  IN  /\ ub.node = Seq0(t)[i]
                      /\ ub.index = i - 1
                      /\ ub.index = Index(heap, ub.node)

\* C24: on a non-empty container PopLeftmost returns (value of the node at
\* index 0, true) and PopRightmost (value of the node at index Size()-1,
\* true), each removing exactly that one node and leaving the rest in order
\* with Size() decreased by 1; on an empty container both return ok = false
\* and leave the container empty.  Repeated PopLeftmost until empty yields
\* the values in non-decreasing order.
C24_Pops ==
  \A t \in TreapIds :
    Usable(t) =>
      LET s == Size(heap, Root(t))
          L == PopLeftmost(heap, Root(t))
          R == PopRightmost(heap, Root(t))
      IN  IF s = 0
          THEN /\ ~L.ok /\ L.root = NIL /\ L.h = heap
               /\ ~R.ok /\ R.root = NIL /\ R.h = heap
          ELSE /\ L.ok /\ L.ret = Value(heap, At(heap, Root(t), 0))
               /\ InOrder(L.h, L.root) = Tail(Seq0(t))
               /\ Size(L.h, L.root) = s - 1
               /\ ValuesOf(L.h, Tail(Seq0(t))) = Tail(Vals0(t))
               /\ R.ok /\ R.ret = Value(heap, At(heap, Root(t), s - 1))
               /\ InOrder(R.h, R.root) = SubSeq(Seq0(t), 1, s - 1)
               /\ Size(R.h, R.root) = s - 1
               /\ ValuesOf(R.h, SubSeq(Seq0(t), 1, s - 1)) = SubSeq(Vals0(t), 1, s - 1)
               /\ PopUntilEmpty(heap, Root(t)) = Vals0(t)
               /\ Sorted(PopUntilEmpty(heap, Root(t)))

\* The container <<1, 2, 2, 3>>: PopLeftmost gives 1, PopRightmost 3, and
\* popping until empty 1, 2, 2, 3.
C24_Witness ==
  /\ Vals0(1) = <<1, 2, 2, 3>>
  /\ PopLeftmost(heap, Root(1)).ret = 1
  /\ PopRightmost(heap, Root(1)).ret = 3
  /\ PopUntilEmpty(heap, Root(1)) = <<1, 2, 2, 3>>
  /\ ~PopLeftmost(heap, NIL).ok

\* s from its last element to its first.
Reverse(s) == [i \in 1..Len(s) |-> s[Len(s) + 1 - i]]

\* C25: in a container of size s, for the node n at index i, n.Next() is
\* the node at index i+1 (absent when i = s-1) and n.Prev() the node at
\* index i-1 (absent when i = 0), n.Leftmost() is the node at index 0 and
\* n.Rightmost() the node at index s-1 for every n; Elements() yields
\* exactly the s nodes in index order and then ends, and ElementsBackwards()
\* yields the same nodes in the reverse order.
C25_Navigation ==
  \A t \in TreapIds :
    LET s == Len(Seq0(t)) IN
    /\ \A i \in 1..s :
         LET n == Seq0(t)[i] IN
         /\ NodeNext(heap, n) = IF i = s THEN NIL ELSE Seq0(t)[i + 1]
         /\ Prev(heap, n) = IF i = 1 THEN NIL ELSE Seq0(t)[i - 1]
         /\ Leftmost(heap, n) = Seq0(t)[1]
         /\ Rightmost(heap, n) = Seq0(t)[s]
    /\ Elements(heap, Root(t)) = Seq0(t)
    /\ ElementsBackwards(heap, Root(t)) = Reverse(Seq0(t))

\* Every node below t is in h2 as it is in h1.
Untouched(h1, h2, t) == \A n \in Nodes(h1, t) : h2[n] = h1[n]

\* C26: merge(left, right) returns the other input itself, unmodified, when
\* one input is empty; otherwise the root of the result is left's root when
\* left.priority >= right.priority (ties go to left) and right's root when
\* left.priority < right.priority, and the winning root keeps its outer
\* child (left's left subtree, or right's right subtree) untouched.
C26_MergeRoot ==
  \A a \in TreapIds, b \in TreapIds :
    Mergeable(a, b) =>
      LET left  == Root(a)
          right == Root(b)
          m     == merge(heap, left, right)
      IN  IF left = NIL THEN m.n = right /\ m.h = heap
          ELSE IF right = NIL THEN m.n = left /\ m.h = heap
          ELSE IF heap[left].heightPriority >= heap[right].heightPriority
          THEN /\ m.n = left
               /\ m.h[left].left = heap[left].left
               /\ Untouched(heap, m.h, heap[left].left)
          ELSE /\ m.n = right
               /\ m.h[right].right = heap[right].right
               /\ Untouched(heap, m.h, heap[right].right)

\* Container 1 holds a root with a left child, container 2 a single node
\* of the same priority as that root: the tie goes to container 1's root,
\* which keeps its left child; merged the other way round the single node
\* wins.
C26_Witness ==
  /\ Root(1) # NIL /\ Root(2) # NIL /\ Mergeable(1, 2)
  /\ heap[Root(1)].left # NIL
  /\ heap[Root(1)].heightPriority = heap[Root(2)].heightPriority
  /\ merge(heap, Root(1), Root(2)).n = Root(1)
  /\ merge(heap, Root(1), Root(2)).h[Root(1)].left = heap[Root(1)].left
  /\ merge(heap, Root(2), Root(1)).n = Root(2)

\* The offsets a split is started with.
Offsets == 0..2

\* The threshold predicates handed to split: the three canonical ones.
Thresholds(f) ==
  {condLess(f, v) : v \in Probes} \cup {condLeq(f, v) : v \in Probes}
    \cup {condCutN(n) : n \in Indexes}

\* The in-order positions of container t, counted from 1, at which c holds
\* when the first position has absolute index indexOffset.
Holds(t, c, indexOffset) ==
  {p \in 1..Len(Seq0(t)) : leftCond(c, Vals0(t)[p], indexOffset + p - 1)}

\* C27: for a valid subtree and a predicate that is true on a prefix of the
\* in-order positions and false afterwards, evaluated for the node at
\* in-order position p with absolute index indexOffset + p, split returns
\* (left, right) with left's in-order sequence equal to exactly that prefix
\* and right's to the remaining suffix, each in original order; split of an
\* empty subtree is (empty, empty).
C27_SplitThreshold ==
  \A t \in TreapIds, indexOffset \in Offsets : \A c \in Thresholds(treap[t].lessFn) :
    LET on == Holds(t, c, indexOffset)
        k  == Cardinality(on)
        s  == split(heap, Root(t), c, indexOffset)
    IN  (Usable(t) /\ on = 1..k) =>
          /\ InOrder(s.h, s.left) = SubSeq(Seq0(t), 1, k)
          /\ InOrder(s.h, s.right) = SubSeq(Seq0(t), k + 1, Len(Seq0(t)))
          /\ Root(t) = NIL => (s.left = NIL /\ s.right = NIL)

\* A container of four split by "index < 3" from offset 1 gives two nodes
\* and two, from offset 0 three and one; split by "value <= 2" on
\* <<1, 2, 2, 3>> gives three and one whatever the offset.
C27_Witness ==
  /\ Vals0(1) = <<1, 2, 2, 3>>
  /\ LET a == split(heap, Root(1), condCutN(3), 1)
         b == split(heap, Root(1), condCutN(3), 0)
         c == split(heap, Root(1), condLeq(treap[1].lessFn, 2), 2)
     IN  /\ InOrder(a.h, a.left) = SubSeq(Seq0(1), 1, 2)
         /\ InOrder(a.h, a.right) = SubSeq(Seq0(1), 3, 4)
         /\ InOrder(b.h, b.left) = SubSeq(Seq0(1), 1, 3)
         /\ InOrder(c.h, c.left) = SubSeq(Seq0(1), 1, 3)
         /\ InOrder(c.h, c.right) = <<Seq0(1)[4]>>

\* The tree below root keeps the size, parent-pointer and heap invariants.
ValidTree(h, root) ==
  /\ root # NIL => h[root].parent = NIL
  /\ \A n \in Nodes(h, root) :
       /\ h[n].size = safeSize(h, h[n].left) + 1 + safeSize(h, h[n].right)
       /\ \A ch \in {h[n].left, h[n].right} \ {NIL} :
            /\ h[ch].parent = n
            /\ h[ch].heightPriority <= h[n].heightPriority

\* C29: for any valid subtree and any predicate whatsoever (monotonic or
\* not), split returns two trees whose node sets are disjoint and together
\* are exactly the input's nodes, each tree's in-order sequence is a
\* subsequence of the input's, both satisfy the size, parent-pointer and
\* heap invariants, and the result is the same every time for the same
\* input.
C29_SplitKeepsNodes ==
  \A t \in TreapIds : \A S \in SUBSET (0..(MaxNodes - 1)) :
    Usable(t) =>
      LET s  == split(heap, Root(t), condIndexIn(S), 0)
          l  == InOrder(s.h, s.left)
          r  == InOrder(s.h, s.right)
      IN  /\ SeqRange(l) \cap SeqRange(r) = {}
          /\ SeqRange(l) \cup SeqRange(r) = Nodes(heap, Root(t))
          /\ Len(l) + Len(r) = Len(Seq0(t))
          /\ l = SelectSeq(Seq0(t), LAMBDA n : n \in SeqRange(l))
          /\ r = SelectSeq(Seq0(t), LAMBDA n : n \in SeqRange(r))
          /\ ValidTree(s.h, s.left)
          /\ ValidTree(s.h, s.right)
          /\ \A n \in Nodes(heap, Root(t)) :
               /\ s.h[n].value = heap[n].value
               /\ s.h[n].heightPriority = heap[n].heightPriority
          /\ \A n \in NodeIds \ Nodes(heap, Root(t)) : s.h[n] = heap[n]

\* A container of four split by a predicate that holds at indexes 0 and 2
\* only: left is not the set of nodes the predicate holds at, both sides
\* are non-empty and no node is lost.
C29_Witness ==
  /\ Size(heap, Root(1)) = 4
  /\ LET s == split(heap, Root(1), condIndexIn({0, 2}), 0)
         l == InOrder(s.h, s.left)
         r == InOrder(s.h, s.right)
     IN  /\ SeqRange(l) # {Seq0(1)[1], Seq0(1)[3]}
         /\ l # <<>> /\ r # <<>>
         /\ Len(l) + Len(r) = 4
         /\ SeqRange(l) \cup SeqRange(r) = Nodes(heap, Root(1))

RECURSIVE ShapeOf(_, _)

\* The shape of the tree below n, with the priority at each node.
ShapeOf(h, n) ==
  IF n = NIL THEN <<>>
  ELSE <<ShapeOf(h, h[n].left), h[n].heightPriority, ShapeOf(h, h[n].right)>>

RECURSIVE CanonicalShape(_)

\* The shape a sequence of priorities determines: the leftmost maximum on
\* top, what precedes it below on the left, what follows on the right.
CanonicalShape(ps) ==
  IF ps = <<>> THEN <<>>
  ELSE
    LET top == CHOOSE i \in 1..Len(ps) :
                 /\ \A j \in 1..Len(ps) : ps[j] <= ps[i]
                 /\ \A j \in 1..(i - 1) : ps[j] < ps[i]
    IN  <<CanonicalShape(SubSeq(ps, 1, top - 1)), ps[top],
          CanonicalShape(SubSeq(ps, top + 1, Len(ps)))>>

\* The priorities of the nodes of s.
PrioritiesOf(h, s) == [i \in 1..Len(s) |-> h[s[i]].heightPriority]

\* C28: after any sequence of constructor, insert, erase, pop and split
\* operations, every left child has a priority strictly lower than its
\* parent's and every right child a priority lower than or equal to its
\* parent's, so the root of every subtree is the leftmost node of maximum
\* priority in its in-order range; hence the tree shape is a function of the
\* in-order sequence of priorities alone, and an operation that erases
\* nothing (EraseAt(i, 0), EraseAll of a missing value) leaves the tree
\* shape identical.
C28_CanonicalShape ==
  /\ \A n \in NodeIds :
       /\ heap[n].left # NIL =>
            heap[heap[n].left].heightPriority < heap[n].heightPriority
       /\ heap[n].right # NIL =>
            heap[heap[n].right].heightPriority <= heap[n].heightPriority
  /\ \A t \in TreapIds :
       /\ ShapeOf(heap, Root(t)) = CanonicalShape(PrioritiesOf(heap, Seq0(t)))
       /\ Usable(t) =>
            /\ \A i \in Indexes :
                 LET E == EraseAt(heap, Root(t), i, 0)
                 IN  E.ret = 0 /\ E.root = Root(t) /\ E.h = heap
            /\ \A v \in Probes :
                 Count(heap, Root(t), treap[t].lessFn, v) = 0 =>
                   LET E == EraseAll(heap, Root(t), treap[t].lessFn, v)
                   IN  E.ret = 0 /\ E.root = Root(t) /\ E.h = heap

\* Three nodes of one priority in one container: the first is on top and
\* the others hang to the right, one below the other.
C28_Witness ==
  /\ Size(heap, Root(1)) = 3
  /\ PrioritiesOf(heap, Seq0(1)) = <<1, 1, 1>>
  /\ Root(1) = Seq0(1)[1]
  /\ heap[Root(1)].right = Seq0(1)[2]
  /\ heap[Seq0(1)[2]].right = Seq0(1)[3]
  /\ EraseAt(heap, Root(1), 1, 0).h = heap

\* How many nodes of the arena carry priority p.
CountPri(h, p) == Cardinality({n \in NodeIds : h[n].heightPriority = p})

\* A step of one of the queries.
QueryStep ==
  \/ \E index \in Indexes : QueryAt(index)
  \/ \E value \in Probes : QueryFind(value)
  \/ \E startValue \in Probes, endValue \in Probes,
        inclusiveStart \in BOOLEAN, inclusiveEnd \in BOOLEAN :
       DoCountRange(1, startValue, inclusiveStart, endValue, inclusiveEnd)
  \/ QueryEnds
  \/ QueryIterate
  \/ \E n \in NodeIds \cup {NIL} : QueryNode(n)

\* C30: At, FindLowerBound, FindUpperBound, CountRange, Count, Size, Empty,
\* Leftmost, Rightmost, Root, the four iterators and the node methods leave
\* every node's value, priority, children, parent and size and the
\* container's root unchanged, and never call the priority source; the
\* priority source is called exactly once per InsertLeft/InsertRight and
\* once per initial value of the constructor.
C30_QueriesReadOnly ==
  [][/\ QueryStep => (heap' = heap /\ treap' = treap /\ calls' = calls)
     /\ \A value \in Values :
          (RandInsertLeft(value) \/ RandInsertRight(value)) =>
            /\ calls' = calls + 1
            /\ Size(heap', treap'[1].root) = Size(heap, Root(1)) + 1
            /\ \A p \in Priorities :
                 CountPri(heap', p) =
                   CountPri(heap, p) + (IF p = staticRand(calls) THEN 1 ELSE 0)
     /\ \A values \in SeqsUpTo(Values, MaxInit) :
          RandNew(values) =>
            /\ calls' = calls + Len(values)
            /\ Len(InOrder(heap', treap'[1].root)) = Len(values)
            /\ PrioritiesOf(heap', InOrder(heap', treap'[1].root)) =
                 [i \in 1..Len(values) |-> staticRand(calls + i - 1)]]_vars

\* Three calls of the priority source and three nodes, holding the three
\* priorities it returned.
C30_Witness ==
  /\ calls = 3
  /\ Size(heap, Root(1)) = 3
  /\ CountPri(heap, staticRand(0)) = 2
  /\ CountPri(heap, staticRand(1)) = 1
  /\ treap[1].randFn = "staticRand"

====
